---- MODULE Spec2Model ----
(***************************************************************************)
(* A state-machine model of the statement / expression parser of           *)
(* src/src/parser/ops.rs (parse_ops, parse_operation, the gen_infix        *)
(* functions, parse_assignment, parse_expr, parse_paren, fn_call).         *)
(*                                                                         *)
(* The recursive-descent calls are unfolded onto an explicit call stack:   *)
(* every function is one action for its entry and, when it calls          *)
(* parse_expr and goes on afterwards, one action for the code that runs    *)
(* after parse_expr has returned.                                          *)
(***************************************************************************)
EXTENDS Integers, Sequences, FiniteSets, TLC

VARIABLES
    tokens,  \* the token stream of the lexer (input, never changed)
    tdark,   \* Parser.tdark, the themed rewrite mode (set at construction)
    pos,     \* lexer cursor: the number of tokens consumed by lexer.next()
    ctl,     \* the function that runs next, "return" after parse_expr gave Ok
    arg,     \* the Option<SpannedToken> argument of the pending call: an
             \* index into tokens, 0 for None
    val,     \* the Expr the last parse_expr returned
    stack,   \* the frames of the callers that wait for a parse_expr, top first
    result   \* the ParseResult of parse_ops once ctl = "done"

vars == <<tokens, tdark, pos, ctl, arg, val, stack, result>>

----------------------------------------------------------------------------
(* Tokens.  A token is [kind, text]; text is the payload of the variant.   *)

Lang == <<"l", "a", "n", "g">>

Script == <<"s", "c", "r", "i", "p", "t">>

Tok(k) == [kind |-> k, text |-> <<>>]

TInt(i) == [kind |-> "Integer", text |-> i]

TBool(b) == [kind |-> "Boolean", text |-> b]

TAbool(a) == [kind |-> "Aboolean", text |-> a]

TStr(s) == [kind |-> "String", text |-> s]

TIden(s) == [kind |-> "Identifier", text |-> s]

TNul == Tok("Nul")

\* The ten infix operator tokens and the Expr variant each one builds.
InfixType ==
    [k \in {"Addition", "Subtract", "Multiply", "Divide", "OpLt", "OpGt",
            "OpEq", "OpNeq", "LogAnd", "LogOr"} |->
        CASE k = "Addition" -> "Add"
          [] k = "Subtract" -> "Subtract"
          [] k = "Multiply" -> "Multiply"
          [] k = "Divide"   -> "Divide"
          [] k = "OpLt"     -> "Lt"
          [] k = "OpGt"     -> "Gt"
          [] k = "OpEq"     -> "Eq"
          [] k = "OpNeq"    -> "Neq"
          [] k = "LogAnd"   -> "And"
          [] k = "LogOr"    -> "Or"]

OpKinds == DOMAIN InfixType

----------------------------------------------------------------------------
(* The lexer: spans, peek, next.                                           *)

\* The span of the i-th token: increasing and non-overlapping.
SpanOf(i) == [start |-> 2 * i - 1, end |-> 2 * i]

\* The span of an error built without a token.
NoSpan == [start |-> 0, end |-> 0]

\* lexer.span(): the span of the lexer's current position.
LexerSpan(p) == SpanOf(p)

\* The token lexer.next() returns with the cursor at p (0 for None).
NextIdx(p) == IF p < Len(tokens) THEN p + 1 ELSE 0

\* The cursor after lexer.next().
Advance(p) == IF p < Len(tokens) THEN p + 1 ELSE p

\* lexer.peek(): the index of the next unconsumed token (0 for None).
Peek == NextIdx(pos)

KindAt(i) == IF i = 0 THEN "None" ELSE tokens[i].kind

----------------------------------------------------------------------------
(* Values of the AST.                                                      *)

NoExpr == [kind |-> "None"]

Pending == [tag |-> "Pending"]

Err(k, s) == [tag |-> "Err", kind |-> k, span |-> s]

\* Error::unexpected_token(span).
ErrorUnexpectedToken(s) == Err("UnexpectedToken", s)

\* Error::end_of_token_stream().
ErrorEndOfTokenStream == Err("EndOfTokenStream", NoSpan)

\* self.unexpected_token(None).
SelfUnexpectedToken == Err("UnexpectedToken", NoSpan)

Literal(l, p, s) == [kind |-> "Literal", lit |-> l, payload |-> p, span |-> s]

Identifier(p, s) == [kind |-> "Identifier", payload |-> p, span |-> s]

Not(e, s) == [kind |-> "Not", expr |-> e, span |-> s]

Binary(type, l, r) == [kind |-> type, left |-> l, right |-> r]

ExprStmt(e) == [tag |-> "Expr", expr |-> e]

PrintStmt(e) == [tag |-> "Print", expr |-> e]

VarAssignment(i, v) == [tag |-> "VarAssignment", iden |-> i, value |-> v]

FunctionCall(i, a) == [tag |-> "FunctionCall", iden |-> i, args |-> a]

\* str::replace("lang", "script"): left to right, non-overlapping.
RECURSIVE Replace(_)
Replace(s) ==
    IF Len(s) < Len(Lang) THEN s
    ELSE IF SubSeq(s, 1, Len(Lang)) = Lang
         THEN Script \o Replace(SubSeq(s, Len(Lang) + 1, Len(s)))
         ELSE <<Head(s)>> \o Replace(Tail(s))

\* The payload of a string literal or identifier node built by parse_expr.
Themed(s) == IF tdark THEN Replace(s) ELSE s

\* expr.span.end as parse_expr's LogNot arm reads it.  The infix functions
\* build their node without a span; the arm then has no end to read and the
\* model leaves the end at that of the empty span.
SpanEnd(e) == IF "span" \in DOMAIN e THEN e.span.end ELSE NoSpan.end

----------------------------------------------------------------------------
(* Control helpers.                                                        *)

Top == Head(stack)

Push(f) == <<f>> \o stack

\* An Err leaves every caller through `?`.
Fail(e) ==
    /\ ctl' = "done"
    /\ result' = e
    /\ stack' = <<>>
    /\ val' = NoExpr
    /\ arg' = 0

\* parse_ops (or a statement reader it delegated to) returns Ok(node).
Finish(node) ==
    /\ ctl' = "done"
    /\ result' = node
    /\ stack' = <<>>
    /\ val' = NoExpr
    /\ arg' = 0

\* Call parse_expr(next); newstack holds the callers waiting for its result.
CallExpr(next, newstack) ==
    /\ ctl' = "parse_expr"
    /\ arg' = next
    /\ stack' = newstack
    /\ val' = NoExpr
    /\ UNCHANGED result

\* self.require(Token::Semicolon)? with the cursor at p, then Ok(node).
RequireSemicolon(p, node) ==
    /\ pos' = Advance(p)
    /\ IF KindAt(NextIdx(p)) = "Semicolon"
       THEN Finish(node)
       ELSE IF NextIdx(p) = 0
            THEN Fail(ErrorEndOfTokenStream)
            ELSE Fail(SelfUnexpectedToken)

----------------------------------------------------------------------------
(* gen_infix and parse_operation.                                          *)

\* Infix with the cursor left where it was: the operator and the operand
\* are looked at and never consumed.
Infix_NoConsume(type, left) ==
    /\ pos' = pos
    /\ CallExpr(NextIdx(Advance(pos)),
                Push([fn |-> "infix", type |-> type, left |-> left]))

\* A generated infix function up to its call of parse_expr: eat the
\* operator, fetch the next token, parse it.
Infix(type, left) ==
    /\ pos' = Advance(Advance(pos))
    /\ CallExpr(NextIdx(Advance(pos)),
                Push([fn |-> "infix", type |-> type, left |-> left]))

\* InfixReturn with the new operand as the left child.
InfixReturn_Swapped ==
    /\ ctl = "return"
    /\ Top.fn = "infix"
    /\ val' = Binary(Top.type, val, Top.left)
    /\ stack' = Tail(stack)
    /\ UNCHANGED <<tokens, tdark, pos, ctl, arg, result>>

\* The generated infix function after parse_expr returned Ok(right).
InfixReturn ==
    /\ ctl = "return"
    /\ Top.fn = "infix"
    /\ val' = Binary(Top.type, Top.left, val)
    /\ stack' = Tail(stack)
    /\ UNCHANGED <<tokens, tdark, pos, ctl, arg, result>>

\* ParseOperation reporting the lexer's position instead of the span of
\* the offending token.
ParseOperation_LexerSpan(buf) ==
    IF KindAt(Peek) \in OpKinds
    THEN Infix(InfixType[KindAt(Peek)], buf)
    ELSE /\ pos' = pos
         /\ Fail(ErrorUnexpectedToken(LexerSpan(pos)))

\* parse_operation(peek, buf), called by the three fold loops with the
\* peeked token (there is one: the loops handle None themselves).
ParseOperation(buf) ==
    IF KindAt(Peek) \in OpKinds
    THEN Infix(InfixType[KindAt(Peek)], buf)
    ELSE /\ pos' = pos
         /\ Fail(ErrorUnexpectedToken(SpanOf(Peek)))

----------------------------------------------------------------------------
(* parse_ops.                                                              *)

ParseOps ==
    /\ ctl = "parse_ops"
    /\ IF KindAt(Peek) = "LeftParenthesis"
       THEN /\ ctl' = "fn_call"
            /\ UNCHANGED <<pos, arg, val, stack, result>>
       ELSE IF KindAt(Peek) = "Assignment"
            THEN /\ ctl' = "parse_assignment"
                 /\ UNCHANGED <<pos, arg, val, stack, result>>
            ELSE /\ CallExpr(arg, Push([fn |-> "parse_ops"]))
                 /\ UNCHANGED pos
    /\ UNCHANGED <<tokens, tdark>>

\* One iteration of the fold loop of parse_ops, buf being the Expr that
\* parse_expr or parse_operation just returned.
ParseOpsLoop ==
    /\ ctl = "return"
    /\ Top.fn = "parse_ops"
    /\ IF KindAt(Peek) = "Print"
       THEN RequireSemicolon(Advance(pos), PrintStmt(val))
       ELSE IF Peek = 0
            THEN /\ Finish(ExprStmt(val))
                 /\ UNCHANGED pos
            ELSE ParseOperation(val)
    /\ UNCHANGED <<tokens, tdark>>

----------------------------------------------------------------------------
(* parse_assignment.                                                       *)

ParseAssignment ==
    /\ ctl = "parse_assignment"
    /\ IF KindAt(arg) = "Identifier"
       THEN /\ pos' = Advance(Advance(pos))
            /\ CallExpr(NextIdx(Advance(pos)),
                        Push([fn |-> "parse_assignment",
                              iden |-> tokens[arg].text]))
       ELSE /\ pos' = Advance(pos)
            /\ Fail(Err("InvalidIdentifier", LexerSpan(Advance(pos))))
    /\ UNCHANGED <<tokens, tdark>>

\* ParseAssignmentLoop ending the statement at the end of the stream too.
ParseAssignmentLoop_EndOk ==
    /\ ctl = "return"
    /\ Top.fn = "parse_assignment"
    /\ IF KindAt(Peek) = "Semicolon" \/ Peek = 0
       THEN /\ pos' = Advance(pos)
            /\ Finish(VarAssignment(Top.iden, val))
       ELSE ParseOperation(val)
    /\ UNCHANGED <<tokens, tdark>>

ParseAssignmentLoop ==
    /\ ctl = "return"
    /\ Top.fn = "parse_assignment"
    /\ IF KindAt(Peek) = "Semicolon"
       THEN /\ pos' = Advance(pos)
            /\ Finish(VarAssignment(Top.iden, val))
       ELSE IF Peek = 0
            THEN /\ pos' = pos
                 /\ Fail(Err("EndOfTokenStream", LexerSpan(pos)))
            ELSE ParseOperation(val)
    /\ UNCHANGED <<tokens, tdark>>

----------------------------------------------------------------------------
(* parse_expr and parse_paren.                                             *)

ParseExpr ==
    /\ ctl = "parse_expr"
    /\ LET k == KindAt(arg)
           span == SpanOf(arg)
           Ok(e) == /\ ctl' = "return"
                    /\ val' = e
                    /\ UNCHANGED <<pos, arg, stack, result>>
       IN  CASE k = "None" ->
                    /\ pos' = pos
                    /\ Fail(ErrorEndOfTokenStream)
             [] k = "Boolean" -> Ok(Literal("Bool", tokens[arg].text, span))
             [] k = "Integer" -> Ok(Literal("Int", tokens[arg].text, span))
             [] k = "String" ->
                    Ok(Literal("Str", Themed(tokens[arg].text), span))
             [] k = "Aboolean" -> Ok(Literal("Abool", tokens[arg].text, span))
             [] k = "Identifier" ->
                    Ok(Identifier(Themed(tokens[arg].text), span))
             [] k = "Nul" -> Ok(Literal("Nul", <<>>, span))
             [] k = "LogNot" ->
                    /\ pos' = Advance(pos)
                    /\ CallExpr(NextIdx(pos),
                                Push([fn |-> "not", start |-> span.start]))
             [] k = "LeftParenthesis" ->
                    /\ ctl' = "parse_paren"
                    /\ UNCHANGED <<pos, arg, val, stack, result>>
             [] OTHER ->
                    /\ pos' = pos
                    /\ Fail(ErrorUnexpectedToken(span))
    /\ UNCHANGED <<tokens, tdark>>

\* NotReturn giving the not-node the span of its operand.
NotReturn_InnerSpan ==
    /\ ctl = "return"
    /\ Top.fn = "not"
    /\ val' = Not(val, val.span)
    /\ stack' = Tail(stack)
    /\ UNCHANGED <<tokens, tdark, pos, ctl, arg, result>>

\* The LogNot arm of parse_expr after the inner parse_expr returned Ok.
NotReturn ==
    /\ ctl = "return"
    /\ Top.fn = "not"
    /\ val' = Not(val, [start |-> Top.start, end |-> SpanEnd(val)])
    /\ stack' = Tail(stack)
    /\ UNCHANGED <<tokens, tdark, pos, ctl, arg, result>>

ParseParen ==
    /\ ctl = "parse_paren"
    /\ pos' = Advance(pos)
    /\ CallExpr(NextIdx(pos), Push([fn |-> "parse_paren"]))
    /\ UNCHANGED <<tokens, tdark>>

\* ParseParenLoop rejecting a group the stream ends in.
ParseParenLoop_Strict ==
    /\ ctl = "return"
    /\ Top.fn = "parse_paren"
    /\ IF KindAt(Peek) = "RightParenthesis"
       THEN /\ pos' = Advance(pos)
            /\ stack' = Tail(stack)
            /\ UNCHANGED <<ctl, arg, val, result>>
       ELSE IF Peek = 0
            THEN /\ pos' = pos
                 /\ Fail(Err("EndOfTokenStream", LexerSpan(pos)))
            ELSE ParseOperation(val)
    /\ UNCHANGED <<tokens, tdark>>

ParseParenLoop ==
    /\ ctl = "return"
    /\ Top.fn = "parse_paren"
    /\ IF KindAt(Peek) = "RightParenthesis"
       THEN /\ pos' = Advance(pos)
            /\ stack' = Tail(stack)
            /\ UNCHANGED <<ctl, arg, val, result>>
       ELSE IF Peek = 0
            THEN /\ stack' = Tail(stack)
                 /\ UNCHANGED <<pos, ctl, arg, val, result>>
            ELSE ParseOperation(val)
    /\ UNCHANGED <<tokens, tdark>>

----------------------------------------------------------------------------
(* fn_call.                                                                *)

\* The head of the argument loop with the cursor at p: fetch a token; a
\* right parenthesis ends the list, anything else is parsed as an argument.
FnCallLoop(p, iden, args) ==
    IF KindAt(NextIdx(p)) = "RightParenthesis"
    THEN RequireSemicolon(Advance(p), FunctionCall(iden, args))
    ELSE /\ pos' = Advance(p)
         /\ CallExpr(NextIdx(p),
                     <<[fn |-> "fn_call", iden |-> iden, args |-> args]>>)

\* FnCall without the check of the callee token.
FnCall_NoCheck ==
    /\ ctl = "fn_call"
    /\ FnCallLoop(Advance(pos), tokens[arg].text, <<>>)
    /\ UNCHANGED <<tokens, tdark>>

FnCall ==
    /\ ctl = "fn_call"
    /\ IF KindAt(arg) = "Identifier"
       THEN FnCallLoop(Advance(pos), tokens[arg].text, <<>>)
       ELSE /\ pos' = pos
            /\ Fail(Err("InvalidIdentifier", LexerSpan(pos)))
    /\ UNCHANGED <<tokens, tdark>>

\* FnCallReturn putting each argument in front of the earlier ones.
FnCallReturn_Reversed ==
    /\ ctl = "return"
    /\ Top.fn = "fn_call"
    /\ LET args == <<val>> \o Top.args
           k == KindAt(Peek)
       IN  IF k = "RightParenthesis"
           THEN RequireSemicolon(Advance(pos), FunctionCall(Top.iden, args))
           ELSE IF k = "Comma"
                THEN FnCallLoop(Advance(pos), Top.iden, args)
                ELSE /\ pos' = Advance(pos)
                     /\ Fail(SelfUnexpectedToken)
    /\ UNCHANGED <<tokens, tdark>>

\* FnCallReturn taking any token but a right parenthesis for a separator.
FnCallReturn_Lenient ==
    /\ ctl = "return"
    /\ Top.fn = "fn_call"
    /\ LET args == Append(Top.args, val)
           k == KindAt(Peek)
       IN  IF k = "RightParenthesis"
           THEN RequireSemicolon(Advance(pos), FunctionCall(Top.iden, args))
           ELSE FnCallLoop(Advance(pos), Top.iden, args)
    /\ UNCHANGED <<tokens, tdark>>

\* The argument loop after parse_expr returned Ok: push the argument and
\* match the following token.
FnCallReturn ==
    /\ ctl = "return"
    /\ Top.fn = "fn_call"
    /\ LET args == Append(Top.args, val)
           k == KindAt(Peek)
       IN  IF k = "RightParenthesis"
           THEN RequireSemicolon(Advance(pos), FunctionCall(Top.iden, args))
           ELSE IF k = "Comma"
                THEN FnCallLoop(Advance(pos), Top.iden, args)
                ELSE /\ pos' = Advance(pos)
                     /\ Fail(SelfUnexpectedToken)
    /\ UNCHANGED <<tokens, tdark>>

----------------------------------------------------------------------------

(* The inputs.  A primary expression is written as a form: an atom (one    *)
(* literal or identifier token), a not-form `! x`, or a group              *)
(* `( x1 op1 x2 ... )`.  A chain is `x1 op1 x2 ... xk`.                    *)

Atom(t) == [f |-> "atom", tok |-> t]

NotForm(x) == [f |-> "not", x |-> x]

Group(xs, ops) == [f |-> "group", xs |-> xs, ops |-> ops]

Front(s) == SubSeq(s, 1, Len(s) - 1)

Last(s) == s[Len(s)]

RECURSIVE Toks(_), ChainToks(_, _)
Toks(x) ==
    CASE x.f = "atom" -> <<x.tok>>
      [] x.f = "not" -> <<Tok("LogNot")>> \o Toks(x.x)
      [] x.f = "group" ->
            <<Tok("LeftParenthesis")>> \o ChainToks(x.xs, x.ops)
                \o <<Tok("RightParenthesis")>>

ChainToks(xs, ops) ==
    IF Len(xs) = 1 THEN Toks(xs[1])
    ELSE ChainToks(Front(xs), Front(ops)) \o <<Tok(Last(ops))>>
             \o Toks(Last(xs))

\* Bounds of the enumeration.
MaxOperands == 3

MaxArgs == 2

MaxRaw == 2

X == <<"x">>

F == <<"f">>

AllAtomToks ==
    {TInt(1), TInt(2), TBool(TRUE), TAbool("Sometimes"), TNul,
     TStr(Lang), TStr(<<"a">> \o Lang \o Lang \o <<"s">>),
     TStr(<<"l", "a", "n">>), TIden(X), TIden(Lang),
     TIden(<<"l">> \o Lang \o <<"g">>)}

A1 == Atom(TInt(1))

A2 == Atom(TInt(2))

AL == Atom(TIden(Lang))

AX == Atom(TIden(X))

\* The forms a statement may start with.
FirstForms ==
    {A1, AL, NotForm(AL), NotForm(NotForm(A1)),
     Group(<<A1>>, <<>>), Group(<<Group(<<A1>>, <<>>)>>, <<>>),
     NotForm(Group(<<A1>>, <<>>)), Group(<<A1, A2>>, <<"Multiply">>)}

\* The forms of the later operands.
RestForms == {A2, NotForm(AX), Group(<<AL, A1>>, <<"OpLt">>)}

\* S with the operands of its not-forms and groups.
SubForms(S) ==
    S \cup {x.x : x \in {y \in S : y.f = "not"}}
      \cup UNION {{x.xs[i] : i \in 1..Len(x.xs)} :
                     x \in {y \in S : y.f = "group"}}

\* Every primary form of the inputs, operands of a form included.
PrimForms ==
    SubForms(SubForms(FirstForms \cup RestForms
                          \cup {Atom(t) : t \in AllAtomToks}))

\* A wide chain tries all ten operators at its first two operator
\* positions; every other position tries two of them.
LateOps == {"Addition", "OpNeq"}

OpsAt(i, wide) == IF wide /\ i <= 2 THEN OpKinds ELSE LateOps

\* The forms tried for the i-th operand of a chain, i > 1.
FormsAt(i) == IF i <= 3 THEN RestForms ELSE {A2}

\* The chains of exactly k operands.
RECURSIVE Chains(_, _)
Chains(k, wide) ==
    IF k = 1 THEN {[xs |-> <<x>>, ops |-> <<>>] : x \in FirstForms}
    ELSE {[xs |-> Append(c.xs, x), ops |-> Append(c.ops, o)] :
             c \in Chains(k - 1, wide), o \in OpsAt(k - 1, wide),
             x \in FormsAt(k)}

ChainsUpTo(k, wide) == UNION {Chains(j, wide) : j \in 1..k}

ChainInputs ==
    {ChainToks(c.xs, c.ops) : c \in ChainsUpTo(MaxOperands, TRUE)}
      \cup {<<t>> : t \in AllAtomToks}

ShortChainInputs ==
    {ChainToks(c.xs, c.ops) : c \in ChainsUpTo(MaxOperands - 1, FALSE)}

\* What may follow the expression of a statement.
Suffixes ==
    {<<Tok("Print"), Tok("Semicolon")>>, <<Tok("Print")>>,
     <<Tok("Print"), TInt(1)>>, <<Tok("LeftParenthesis"), TInt(2)>>,
     <<Tok("Semicolon")>>, <<Tok("RightParenthesis")>>, <<Tok("Addition")>>}

SuffixInputs == {c \o s : c \in ShortChainInputs, s \in Suffixes}

\* `( x1 op x2 ...` with the closing parenthesis missing.
OpenInputs == {<<Tok("LeftParenthesis")>> \o c : c \in ShortChainInputs}

AssignInputs ==
    {<<TIden(i), Tok("Assignment")>> \o c \o s :
        i \in {X, Lang},
        c \in ShortChainInputs \cup OpenInputs,
        s \in {<<>>, <<Tok("Semicolon")>>}}

\* The argument lists of at most n arguments, as token sequences without
\* the closing parenthesis, each with its number of arguments.
ArgForms == RestForms \cup {A1, Group(<<A1>>, <<>>)}

RECURSIVE ArgLists(_)
ArgLists(n) ==
    IF n = 0 THEN {<<>>}
    ELSE ArgLists(n - 1) \cup
         {Append(a, x) : a \in ArgLists(n - 1), x \in ArgForms}

RECURSIVE ArgToks(_)
ArgToks(a) ==
    IF Len(a) = 0 THEN <<>>
    ELSE IF Len(a) = 1 THEN Toks(a[1])
    ELSE ArgToks(Front(a)) \o <<Tok("Comma")>> \o Toks(Last(a))

CallTails ==
    {<<Tok("RightParenthesis"), Tok("Semicolon")>>,
     <<Tok("RightParenthesis")>>, <<>>,
     <<Tok("RightParenthesis"), Tok("Print")>>,
     <<Tok("Comma"), Tok("RightParenthesis"), Tok("Semicolon")>>,
     <<Tok("Addition"), TInt(2), Tok("RightParenthesis"), Tok("Semicolon")>>,
     <<Tok("Semicolon")>>, <<TInt(2), Tok("RightParenthesis")>>}

CallInputs ==
    {<<TIden(i), Tok("LeftParenthesis")>> \o ArgToks(a) \o t :
        i \in {F, Lang}, a \in ArgLists(MaxArgs), t \in CallTails}

\* Every stream of at most MaxRaw tokens, one token of each kind.
RawToks ==
    {TInt(1), TBool(TRUE), TAbool("Sometimes"), TNul, TStr(Lang), TIden(X),
     Tok("LogNot"), Tok("LeftParenthesis"), Tok("RightParenthesis"),
     Tok("Comma"), Tok("Semicolon"), Tok("Print"), Tok("Assignment")}
      \cup {Tok(k) : k \in OpKinds}

RECURSIVE Raw(_)
Raw(n) ==
    IF n = 1 THEN {<<t>> : t \in RawToks}
    ELSE Raw(n - 1) \cup {Append(s, t) : s \in Raw(n - 1), t \in RawToks}

RawInputs == Raw(MaxRaw)

Inputs ==
    ChainInputs \cup SuffixInputs \cup OpenInputs \cup AssignInputs
        \cup CallInputs \cup RawInputs

Init ==
    /\ tokens \in Inputs
    /\ tdark \in BOOLEAN
    /\ pos = 1
    /\ ctl = "parse_ops"
    /\ arg = 1
    /\ val = NoExpr
    /\ stack = <<>>
    /\ result = Pending

Next ==
    \/ ParseOps
    \/ ParseOpsLoop
    \/ ParseAssignment
    \/ ParseAssignmentLoop
    \/ ParseExpr
    \/ NotReturn
    \/ ParseParen
    \/ ParseParenLoop
    \/ InfixReturn
    \/ FnCall
    \/ FnCallReturn

Spec == Init /\ [][Next]_vars

FairSpec == Spec /\ WF_vars(Next)

----------------------------------------------------------------------------
(* The vocabulary of the properties: the tree a form stands for, and the   *)
(* forms found in the token stream.                                        *)

Done == ctl = "done"

IsErr(k) == Done /\ result.tag = "Err" /\ result.kind = k

KindSafe(i) == IF i \in 1..Len(tokens) THEN tokens[i].kind ELSE "None"

\* The node of an atom whose token is the i-th of the stream.
AtomTree(t, i) ==
    CASE t.kind = "Boolean" -> Literal("Bool", t.text, SpanOf(i))
      [] t.kind = "Integer" -> Literal("Int", t.text, SpanOf(i))
      [] t.kind = "Aboolean" -> Literal("Abool", t.text, SpanOf(i))
      [] t.kind = "Nul" -> Literal("Nul", <<>>, SpanOf(i))
      [] t.kind = "String" ->
            Literal("Str", IF tdark THEN Replace(t.text) ELSE t.text,
                    SpanOf(i))
      [] t.kind = "Identifier" ->
            Identifier(IF tdark THEN Replace(t.text) ELSE t.text, SpanOf(i))

\* The tree of form x whose tokens follow the first off tokens of the
\* stream; a chain folds to the left.
RECURSIVE Tree(_, _), ChainTree(_, _, _)
Tree(x, off) ==
    CASE x.f = "atom" -> AtomTree(x.tok, off + 1)
      [] x.f = "not" ->
            LET e == Tree(x.x, off + 1)
            IN  Not(e, [start |-> SpanOf(off + 1).start, end |-> SpanEnd(e)])
      [] x.f = "group" -> ChainTree(x.xs, x.ops, off + 1)

ChainTree(xs, ops, off) ==
    IF Len(xs) = 1 THEN Tree(xs[1], off)
    ELSE Binary(InfixType[Last(ops)],
                ChainTree(Front(xs), Front(ops), off),
                Tree(Last(xs),
                     off + Len(ChainToks(Front(xs), Front(ops))) + 1))

\* Form x stands in the stream right after its first off tokens.
MatchAt(x, off) ==
    LET t == Toks(x)
    IN  /\ off + Len(t) <= Len(tokens)
        /\ SubSeq(tokens, off + 1, off + Len(t)) = t

HasPrim(off) == \E x \in PrimForms : MatchAt(x, off)

PrimAt(off) == CHOOSE x \in PrimForms : MatchAt(x, off)

PrimEnd(off) == off + Len(Toks(PrimAt(off)))

\* The longest chain `x1 op1 x2 ...` that goes on after a chain ending at
\* token end with the tree given: where it ends, and its left-folded tree.
RECURSIVE ChainWalk(_, _)
ChainWalk(end, tree) ==
    IF KindSafe(end + 1) \in OpKinds /\ HasPrim(end + 1)
    THEN ChainWalk(PrimEnd(end + 1),
                   Binary(InfixType[KindSafe(end + 1)], tree,
                          Tree(PrimAt(end + 1), end + 1)))
    ELSE [end |-> end, tree |-> tree]

\* The longest chain after the first off tokens (end -1: there is none).
ChainFrom(off) ==
    IF HasPrim(off)
    THEN ChainWalk(PrimEnd(off), Tree(PrimAt(off), off))
    ELSE [end |-> -1, tree |-> NoExpr]

\* The comma-separated primaries after the first off tokens.
RECURSIVE ArgWalk(_, _)
ArgWalk(off, acc) ==
    IF HasPrim(off)
    THEN LET args == Append(acc, Tree(PrimAt(off), off))
         IN  IF KindSafe(PrimEnd(off) + 1) = "Comma"
                    /\ HasPrim(PrimEnd(off) + 1)
             THEN ArgWalk(PrimEnd(off) + 1, args)
             ELSE [end |-> PrimEnd(off), args |-> args]
    ELSE [end |-> off, args |-> acc]

----------------------------------------------------------------------------

\* The stream is `a OP1 b OP2 c` and nothing else, for primary forms a, b
\* and c; the tree (a OP1 b) OP2 c.
IsThree(a, b, c) ==
    LET la == Len(Toks(a))
        lb == Len(Toks(b))
    IN  /\ MatchAt(a, 0)
        /\ KindSafe(la + 1) \in OpKinds
        /\ MatchAt(b, la + 1)
        /\ KindSafe(la + lb + 2) \in OpKinds
        /\ MatchAt(c, la + lb + 2)
        /\ Len(tokens) = la + lb + 2 + Len(Toks(c))

LeftFolded(a, b, c) ==
    LET la == Len(Toks(a))
        lb == Len(Toks(b))
    IN  Binary(InfixType[KindSafe(la + lb + 2)],
               Binary(InfixType[KindSafe(la + 1)],
                      Tree(a, 0), Tree(b, la + 1)),
               Tree(c, la + lb + 2))

RightFolded(a, b, c) ==
    LET la == Len(Toks(a))
        lb == Len(Toks(b))
    IN  Binary(InfixType[KindSafe(la + 1)],
               Tree(a, 0),
               Binary(InfixType[KindSafe(la + lb + 2)],
                      Tree(b, la + 1), Tree(c, la + lb + 2)))

\* C1 as stated: for any primaries a, b, c and any two operators, the
\* statement `a OP1 b OP2 c` parses to the bare expression (a OP1 b) OP2 c.
C1_AnyPrimaries ==
    Done =>
        \A a \in PrimForms : MatchAt(a, 0) =>
            \A b \in PrimForms : MatchAt(b, Len(Toks(a)) + 1) =>
                \A c \in PrimForms : IsThree(a, b, c) =>
                    result = ExprStmt(LeftFolded(a, b, c))

\* C1 amended: the same, for streams whose second token is not a left
\* parenthesis (a is not of the form `( ( ...` or `! ( ...`); the result is
\* (a OP1 b) OP2 c and never a OP1 (b OP2 c).
C1_LeftFold ==
    (Done /\ KindSafe(2) # "LeftParenthesis") =>
        \A a \in PrimForms : MatchAt(a, 0) =>
            \A b \in PrimForms : MatchAt(b, Len(Toks(a)) + 1) =>
                \A c \in PrimForms : IsThree(a, b, c) =>
                    /\ result = ExprStmt(LeftFolded(a, b, c))
                    /\ result # ExprStmt(RightFolded(a, b, c))

\* `1 + ( lang < 1 ) * 2` has been parsed to Multiply(Add(..), 2).
C1_Witness ==
    /\ Done
    /\ tokens = ChainToks(<<A1, Group(<<AL, A1>>, <<"OpLt">>), A2>>,
                          <<"Addition", "Multiply">>)
    /\ result.tag = "Expr"
    /\ result.expr.kind = "Multiply"
    /\ result.expr.left.kind = "Add"
    /\ result.expr.left.right.kind = "Lt"

----------------------------------------------------------------------------

\* C2 as stated: in the stream `a ( b` (a and b primaries) the parse fails
\* with UnexpectedToken at the span of the left parenthesis.
C2_AnyPosition ==
    Done =>
        \A a \in PrimForms :
            (/\ MatchAt(a, 0)
             /\ KindSafe(Len(Toks(a)) + 1) = "LeftParenthesis"
             /\ HasPrim(Len(Toks(a)) + 1)
             /\ PrimEnd(Len(Toks(a)) + 1) = Len(tokens))
            => result = Err("UnexpectedToken", SpanOf(Len(Toks(a)) + 1))

\* A fold loop (of parse_ops, parse_assignment or parse_paren) is about to
\* run an iteration.
AtFoldLoop ==
    /\ ctl = "return"
    /\ Top.fn \in {"parse_ops", "parse_assignment", "parse_paren"}

\* C2 amended: a left parenthesis that a fold loop peeks where it expects
\* an infix operator makes the parse fail with UnexpectedToken whose span
\* is the span of that left parenthesis.
C2_StrayParen ==
    [][(AtFoldLoop /\ KindAt(Peek) = "LeftParenthesis")
         => (ctl' = "done"
               /\ result' = Err("UnexpectedToken", SpanOf(Peek)))]_vars

\* `! lang ( 2` has failed at the parenthesis, the third token.
C2_Witness ==
    /\ Done
    /\ tokens = Toks(NotForm(AL)) \o <<Tok("LeftParenthesis"), TInt(2)>>
    /\ result = Err("UnexpectedToken", SpanOf(3))

\* C3: with a left parenthesis or an assignment operator as the second
\* token, the result is InvalidIdentifier whenever the first token is not
\* an identifier, and only an identifier lets the call reader or the
\* assignment reader parse the statement; with any other second token the
\* first token is parsed as a primary and InvalidIdentifier cannot result.
C3_Dispatch ==
    LET reader == KindSafe(2) \in {"LeftParenthesis", "Assignment"}
    IN  /\ ctl \in {"fn_call", "parse_assignment"} => reader
        /\ (ctl = "parse_expr" /\ arg = 1 /\ pos = 1) => ~reader
        /\ Done =>
             IF reader
             THEN IF KindSafe(1) = "Identifier"
                  THEN /\ ~IsErr("InvalidIdentifier")
                       /\ pos >= 2
                  ELSE /\ IsErr("InvalidIdentifier")
                       /\ pos <= 2
             ELSE /\ ~IsErr("InvalidIdentifier")
                  /\ result.tag \notin {"FunctionCall", "VarAssignment"}

\* `! ( ...` has been refused as a call on a non-identifier.
C3_Witness ==
    /\ IsErr("InvalidIdentifier")
    /\ KindSafe(1) = "LogNot"
    /\ KindSafe(2) = "LeftParenthesis"

\* C4: `x = <primary> (<op> <primary>)*` fails with EndOfTokenStream when
\* the stream ends there (also when it ends inside an unterminated group)
\* and no assignment statement is returned; followed by a semicolon it
\* gives VarAssignment{x, value}, value folded to the left, the semicolon
\* consumed.
C4_Assignment ==
    (Done /\ KindSafe(1) = "Identifier" /\ KindSafe(2) = "Assignment") =>
        LET c == ChainFrom(2)
        IN  /\ c.end = Len(tokens) => IsErr("EndOfTokenStream")
            /\ (KindSafe(3) = "LeftParenthesis"
                  /\ ChainFrom(3).end = Len(tokens))
                 => IsErr("EndOfTokenStream")
            /\ (c.end + 1 = Len(tokens)
                  /\ KindSafe(Len(tokens)) = "Semicolon")
                 => /\ result = VarAssignment(tokens[1].text, c.tree)
                    /\ pos = Len(tokens)
            /\ result.tag = "VarAssignment" => KindSafe(pos) = "Semicolon"

\* `x = 1`, no semicolon, has failed with EndOfTokenStream.
C4_Witness ==
    /\ IsErr("EndOfTokenStream")
    /\ tokens = <<TIden(X), Tok("Assignment"), TInt(1)>>

\* C5 as stated: a left parenthesis, a chain and then the end of the
\* stream parse to the chain's left-folded tree as a bare expression.
C5_AnyGroup ==
    (Done /\ KindSafe(1) = "LeftParenthesis") =>
        (ChainFrom(1).end = Len(tokens)
            => result = ExprStmt(ChainFrom(1).tree))

\* C5 amended: the same when the token after the opening parenthesis is
\* not a left parenthesis too; the tree is that of the closed group.
C5_OpenGroup ==
    (Done /\ KindSafe(1) = "LeftParenthesis"
          /\ KindSafe(2) # "LeftParenthesis") =>
        LET c == ChainFrom(1)
        IN  /\ c.end = Len(tokens) => result = ExprStmt(c.tree)
            /\ (c.end + 1 = Len(tokens)
                  /\ KindSafe(Len(tokens)) = "RightParenthesis")
                 => result = ExprStmt(c.tree)

\* `( 1 + 2` has been parsed to Add(1, 2).
C5_Witness ==
    /\ Done
    /\ tokens = <<Tok("LeftParenthesis")>>
                    \o ChainToks(<<A1, A2>>, <<"Addition">>)
    /\ result.tag = "Expr"
    /\ result.expr.kind = "Add"

\* The stream is `! a OP b` and nothing else.
IsNotThenOp ==
    /\ KindSafe(1) = "LogNot"
    /\ HasPrim(1)
    /\ KindSafe(PrimEnd(1) + 1) \in OpKinds
    /\ HasPrim(PrimEnd(1) + 1)
    /\ PrimEnd(PrimEnd(1) + 1) = Len(tokens)

\* OP(Not(a), b), the not-node spanning from the `!` to the end of a.
NotThenOpTree ==
    LET a == Tree(PrimAt(1), 1)
    IN  Binary(InfixType[KindSafe(PrimEnd(1) + 1)],
               Not(a, [start |-> SpanOf(1).start, end |-> SpanEnd(a)]),
               Tree(PrimAt(PrimEnd(1) + 1), PrimEnd(1) + 1))

\* C6 as stated: `! a OP b` parses to OP(Not(a), b) for any primaries.
C6_AnyPrimary ==
    (Done /\ IsNotThenOp) => result = ExprStmt(NotThenOpTree)

\* C6 amended: `! a OP b` parses to OP(Not(a), b), never Not(OP(a, b)),
\* when a does not begin with a left parenthesis.
C6_NotBindsOne ==
    (Done /\ IsNotThenOp /\ KindSafe(2) # "LeftParenthesis") =>
        /\ result = ExprStmt(NotThenOpTree)
        /\ result.expr.kind # "Not"
        /\ result.expr.left.span.start = SpanOf(1).start
        /\ result.expr.left.span.end = result.expr.left.expr.span.end

\* `! lang + 2` has been parsed to Add(Not(lang), 2).
C6_Witness ==
    /\ Done
    /\ tokens = ChainToks(<<NotForm(AL), A2>>, <<"Addition">>)
    /\ result.tag = "Expr"
    /\ result.expr.kind = "Add"
    /\ result.expr.left.kind = "Not"

\* C7: `f ( p1 , ... , pn ) ;` parses to FunctionCall{f, [p1, ..., pn]},
\* the arguments in source order, the parenthesis and the semicolon
\* consumed.
C7_FunctionCall ==
    (Done /\ KindSafe(1) = "Identifier" /\ KindSafe(2) = "LeftParenthesis")
        => LET w == ArgWalk(2, <<>>)
           IN  (/\ KindSafe(w.end + 1) = "RightParenthesis"
                /\ KindSafe(w.end + 2) = "Semicolon"
                /\ Len(tokens) = w.end + 2)
               => /\ result = FunctionCall(tokens[1].text, w.args)
                  /\ pos = Len(tokens)

\* `f ( 1 , 2 ) ;` has been parsed to a call with the arguments 1 and 2.
C7_Witness ==
    /\ Done
    /\ tokens = <<TIden(F), Tok("LeftParenthesis"), TInt(1), Tok("Comma"),
                  TInt(2), Tok("RightParenthesis"), Tok("Semicolon")>>
    /\ result.tag = "FunctionCall"
    /\ Len(result.args) = 2
    /\ result.args[1].payload = 1
    /\ result.args[2].payload = 2

\* C8 as stated: with the rewrite mode on, an identifier or string token
\* gives a node whose payload is its text with every "lang" replaced by
\* "script"; with the mode off the payload is the text.
C8_ThemedRewrite ==
    LET themed(s) == IF tdark THEN Replace(s) ELSE s
    IN  Done =>
          /\ (Len(tokens) = 1 /\ KindSafe(1) \in {"Identifier", "String"})
               => /\ result.tag = "Expr"
                  /\ result.expr.payload = themed(tokens[1].text)
          /\ result.tag \in {"VarAssignment", "FunctionCall"}
               => result.iden = themed(tokens[1].text)

\* C9: when anything but a right parenthesis or a comma follows an
\* argument of a call (an infix operator, another token, the end of the
\* stream), the parse fails with UnexpectedToken and gives no call.
C9_ArgumentIsOnePrimary ==
    (Done /\ KindSafe(1) = "Identifier" /\ KindSafe(2) = "LeftParenthesis")
        => LET w == ArgWalk(2, <<>>)
           IN  (/\ Len(w.args) >= 1
                /\ KindSafe(w.end + 1) \notin {"RightParenthesis", "Comma"})
               => IsErr("UnexpectedToken")

\* `f ( 1 + 2 ) ;` has failed with UnexpectedToken.
C9_Witness ==
    /\ IsErr("UnexpectedToken")
    /\ tokens = <<TIden(F), Tok("LeftParenthesis"), TInt(1), Tok("Addition"),
                  TInt(2), Tok("RightParenthesis"), Tok("Semicolon")>>

\* An iteration of one of the four loops.
LoopIteration ==
    ParseOpsLoop \/ ParseAssignmentLoop \/ ParseParenLoop \/ FnCallReturn

\* C10: every parse ends with a node or an error, and an iteration of a
\* loop that neither returns nor fails moves the cursor forward.
C10_Progress ==
    /\ [][LoopIteration => (ctl' \in {"done", "return"} \/ pos' > pos)]_vars
    /\ [][pos' >= pos /\ pos' <= Len(tokens)]_vars
    /\ <>(Done /\ result.tag # "Pending")

\* A statement of three operands has been folded in two iterations, every
\* token consumed.
C10_Witness ==
    /\ Done
    /\ result.tag = "Expr"
    /\ Len(tokens) >= 5
    /\ pos = Len(tokens)
    /\ result.expr.kind \in {InfixType[k] : k \in OpKinds}
    /\ result.expr.left.kind \in {InfixType[k] : k \in OpKinds}

====
